---- MODULE Spec2Model ----
(***************************************************************************)
(* Care-connect: the symptom-triage client (queryNLPService and its        *)
(* formatters), the symptom controller, the Appointment schema with its    *)
(* urgency validator, and the AppointmentRequest workflow with its state   *)
(* machine, pre-save hook and role middleware.                             *)
(*                                                                         *)
(* JavaScript values are tagged records, so that a value of an unexpected  *)
(* type (a string where a number is expected, undefined, null) is a value  *)
(* of the model like any other.  An AI response text is a sequence of      *)
(* tokens: the braces, a prose token, and "key": value members.            *)
(***************************************************************************)
EXTENDS Integers, Sequences, FiniteSets, TLC

VARIABLES
    tpc,        \* position of queryNLPService: "start", "awaiting", "done"
    query,      \* the caller's free-text symptoms
    aiOutcome,  \* what model.generateContent / response.text() will produce
    tresult,    \* what queryNLPService gave its caller
    appts,      \* the Appointment collection: id -> document or NoDoc
    lastWrite,  \* outcome of the last create / update on the collection
    request,    \* the AppointmentRequest document, or NoRequest
    lastOp,     \* the last operation requested on the AppointmentRequest
    appended,   \* the messages whose append was accepted, in order
    now,        \* the server clock
    response,   \* what checkSymptoms answered, or NoResponse
    handlers,   \* the status requests being served: loaded document and position
    feedbacks,  \* the feedback submitted for the AppointmentRequest, in order
    locationState,  \* BookAppointment: location.state of the navigation
    userData,   \* BookAppointment: useAuth().userData
    authLoading,    \* BookAppointment: useAuth().isLoading
    formData,   \* BookAppointment: the formData state
    loading,    \* BookAppointment: the loading state
    doctorsFetch,   \* BookAppointment: getAllDoctors() "pending" or "settled"
    inFlight,   \* createAppointmentRequest calls that have not settled
    snackbar,   \* BookAppointment: the snackbar state
    lastSubmit  \* what the last handleSubmit did

controllerVars == <<response>>
raceVars == <<handlers>>
feedbackVars == <<feedbacks>>
formVars == <<locationState, userData, authLoading, formData, loading,
              doctorsFetch, inFlight, snackbar, lastSubmit>>
peripheryVars == <<controllerVars, raceVars, feedbackVars, formVars>>

vars == <<tpc, query, aiOutcome, tresult, appts, lastWrite,
          request, lastOp, appended, now, controllerVars, raceVars,
          feedbackVars, formVars>>

triageVars == <<tpc, query, aiOutcome, tresult>>
apptVars == <<appts, lastWrite>>
workflowVars == <<request, lastOp, appended, now>>

\* ------------------------------------------------------------------ bounds
MaxChunks == 4      \* chunks concatenated into an AI response text
MaxWords == 3       \* words of an error message
MaxDocs == 2        \* documents in the appointment collection
MaxClock == 7       \* operations requested on one AppointmentRequest

\* ------------------------------------------ the workflow before any request
NoRequest == [absent |-> TRUE]
NoOperation == [op |-> "none"]

WorkflowIdle ==
    /\ request = NoRequest
    /\ lastOp = NoOperation
    /\ appended = <<>>
    /\ now = 1

\* --------------------------- the controller, the races, feedback, the form
NoResponse == [status |-> "none"]
ControllerIdle == response = NoResponse

\* the two request handlers that may be serving a request at the same time
HandlerIds == {"first", "second"}
IdleHandler == [pc |-> "idle"]
RaceIdle == handlers = [h \in HandlerIds |-> IdleHandler]

FeedbackIdle == feedbacks = <<>>

NoSubmit == [sent |-> "none"]

\* the booking page is not mounted
FormIdle ==
    /\ locationState = [t |-> "null"]
    /\ userData = [t |-> "null"]
    /\ authLoading = FALSE
    /\ formData = [t |-> "undefined"]
    /\ loading = TRUE
    /\ doctorsFetch = "pending"
    /\ inFlight = <<>>
    /\ snackbar = [open |-> FALSE, message |-> "", severity |-> "success"]
    /\ lastSubmit = NoSubmit

PeripheryIdle ==
    /\ ControllerIdle
    /\ RaceIdle
    /\ FeedbackIdle
    /\ FormIdle

\* ------------------------------------------------------- JavaScript values
Undefined == [t |-> "undefined"]
Null == [t |-> "null"]
Num(n) == [t |-> "number", n |-> n]
Str(s) == [t |-> "string", s |-> s]
Arr(a) == [t |-> "array", a |-> a]
Bool(b) == [t |-> "boolean", b |-> b]

\* ToBoolean(v) = false
Falsy(v) ==
    \/ v.t \in {"undefined", "null"}
    \/ v.t = "number" /\ v.n = 0
    \/ v.t = "string" /\ v.s = ""
    \/ v.t = "boolean" /\ ~v.b

\* a || d
JSOr(v, d) == IF Falsy(v) THEN d ELSE v

\* ToNumber(v) is NaN.  The strings of the model are "" (0) or non-numeric.
IsNaN(v) ==
    \/ v.t = "undefined"
    \/ v.t = "string" /\ v.s # ""
    \/ v.t = "array" /\ Len(v.a) > 0

ToNumber(v) == IF v.t = "number" THEN v.n ELSE 0

\* v <= k and v > k under JavaScript's numeric comparison
JSLessEq(v, k) == ~IsNaN(v) /\ ToNumber(v) <= k
JSGreater(v, k) == ~IsNaN(v) /\ ToNumber(v) > k

RECURSIVE JoinStrings(_, _)
JoinStrings(a, sep) ==
    IF Len(a) = 0 THEN ""
    ELSE IF Len(a) = 1 THEN a[1]
    ELSE a[1] \o sep \o JoinStrings(Tail(a), sep)

\* `${v}` in a template literal
JSString(v) ==
    CASE v.t = "undefined" -> "undefined"
      [] v.t = "null" -> "null"
      [] v.t = "number" -> ToString(v.n)
      [] v.t = "string" -> v.s
      [] v.t = "array" -> JoinStrings(v.a, ",")

\* ------------------------------------------------------------ AI text
Open == [c |-> "{"]
Close == [c |-> "}"]
Prose == [c |-> "x"]
Member(k, v) == [k |-> k, v |-> v]
IsMember(tok) == "k" \in DOMAIN tok

Keys ==
    {"primary_assessment", "first_aid_tips", "warning_signs", "severity_score",
     "when_to_seek_help", "urgency", "recommended_action", "disclaimer"}

KeyOrder ==
    <<"primary_assessment", "first_aid_tips", "warning_signs", "severity_score",
      "when_to_seek_help", "urgency", "recommended_action", "disclaimer">>

\* the characters of a JSON value
JSONText(v) ==
    CASE v.t = "null" -> "null"
      [] v.t = "number" -> ToString(v.n)
      [] v.t = "string" -> "'" \o v.s \o "'"
      [] v.t = "array" -> "[" \o JoinStrings(v.a, ",") \o "]"
      [] OTHER -> ""

TokenText(tok) ==
    IF IsMember(tok) THEN "'" \o tok.k \o "':" \o JSONText(tok.v) \o ";"
    ELSE tok.c

\* the string a token sequence stands for
RECURSIVE TextString(_)
TextString(text) ==
    IF Len(text) = 0 THEN "" ELSE TokenText(text[1]) \o TextString(Tail(text))

MaxOf(S) == CHOOSE m \in S : \A n \in S : n <= m
MinOf(S) == CHOOSE m \in S : \A n \in S : m <= n

\* ------------------------------------------------- extraction and parsing
NoMatch == <<>>

\* a lazy match: from the first "{" to the first "}" after it
JsonMatchLazy(text) ==
    LET opens == {i \in 1..Len(text) : text[i] = Open}
        closes == {i \in 1..Len(text) : text[i] = Close /\ opens # {} /\ i > MinOf(opens)}
    IN  IF opens # {} /\ closes # {}
        THEN SubSeq(text, MinOf(opens), MinOf(closes))
        ELSE NoMatch

\* text.match(/\{[\s\S]*\}/): from the first "{" to the last "}" after it
JsonMatch(text) ==
    LET opens == {i \in 1..Len(text) : text[i] = Open}
        closes == {i \in 1..Len(text) : text[i] = Close}
    IN  IF opens # {} /\ closes # {} /\ MaxOf(closes) > MinOf(opens)
        THEN SubSeq(text, MinOf(opens), MaxOf(closes))
        ELSE NoMatch

\* JSON.parse of a span that starts with "{": an object when the span is
\* "{" members "}", a SyntaxError otherwise.  A repeated key keeps its last
\* value; a key that does not occur reads as undefined.
JSONParse(span) ==
    LET inner == SubSeq(span, 2, Len(span) - 1)
    IN  IF  /\ Len(span) >= 2
            /\ span[1] = Open
            /\ span[Len(span)] = Close
            /\ \A i \in 1..Len(inner) : IsMember(inner[i])
        THEN [ok |-> TRUE,
              obj |-> [key \in Keys |->
                        LET at == {i \in 1..Len(inner) : inner[i].k = key}
                        IN  IF at = {} THEN Undefined ELSE inner[MaxOf(at)].v]]
        ELSE [ok |-> FALSE]

\* ------------------------------------------------------------- formatters
Rule == "======================================="

getSeverityEmoji(score) ==
    IF JSLessEq(score, 2) THEN "green"
    ELSE IF JSLessEq(score, 4) THEN "yellow"
    ELSE IF JSLessEq(score, 6) THEN "orange"
    ELSE IF JSLessEq(score, 8) THEN "red"
    ELSE "sos"

getUrgencyIndicator(urgency) ==
    IF urgency.t # "string" THEN "blue"
    ELSE CASE urgency.s = "Routine" -> "blue"
           [] urgency.s = "Same Day" -> "yellow"
           [] urgency.s = "Urgent" -> "orange"
           [] urgency.s = "Emergency" -> "red"
           [] OTHER -> "blue"

\* array.filter(Boolean) on an array of strings
FilterBoolean(lines) == SelectSeq(lines, LAMBDA l : l # "")

\* value.map(f): a TypeError unless value is an array
CanMap(v) == v.t = "array"
MapLines(v, prefix) == [i \in 1..Len(v.a) |-> prefix \o v.a[i]]

NextSteps ==
    <<Rule,
      "NEXT STEPS",
      "   Book an appointment with a healthcare provider based on the urgency level.",
      "   Click the 'Book Appointment' button below to proceed.",
      Rule>>

\* formatSymptomAnalysis(data): the lines of the report, or a TypeError
formatSymptomAnalysis(data) ==
    IF ~CanMap(data["first_aid_tips"]) \/ ~CanMap(data["warning_signs"])
    THEN [threw |-> TRUE, error |-> [hasMessage |-> TRUE,
                                    message |-> <<"Cannot read properties of undefined">>]]
    ELSE [threw |-> FALSE,
          value |-> FilterBoolean(
            <<"SYMPTOM ANALYSIS REPORT", Rule, "",
              "SEVERITY ASSESSMENT",
              "   " \o getSeverityEmoji(data["severity_score"]) \o " Score: "
                    \o JSString(data["severity_score"]) \o "/10",
              "   " \o getUrgencyIndicator(data["urgency"]) \o " Urgency: "
                    \o JSString(data["urgency"]),
              "",
              "PRIMARY ASSESSMENT",
              "   " \o JSString(data["primary_assessment"]),
              "",
              "FIRST AID TIPS">>
            \o MapLines(data["first_aid_tips"], "   + ")
            \o <<"", "WARNING SIGNS TO WATCH">>
            \o MapLines(data["warning_signs"], "   ! ")
            \o <<"",
                 "WHEN TO SEEK MEDICAL HELP",
                 "   " \o JSString(data["when_to_seek_help"]),
                 "",
                 "RECOMMENDED ACTION",
                 "   " \o JSString(data["recommended_action"]),
                 "">>
            \o (IF JSGreater(data["severity_score"], 1) THEN NextSteps ELSE <<"">>)
            \o <<"", Rule,
                 "MEDICAL DISCLAIMER",
                 "   " \o JSString(data["disclaimer"]),
                 Rule>>)]

\* formatFallbackResponse(query, rawText)
formatFallbackResponse(q, rawText) ==
    <<"SYMPTOM ANALYSIS REPORT", Rule, "",
      "SYMPTOMS ANALYZED: " \o q,
      "",
      "ASSESSMENT",
      "   " \o TextString(rawText),
      "", Rule,
      "MEDICAL DISCLAIMER",
      "   This is AI-generated health information for educational purposes only.",
      "   Always consult healthcare professionals for medical advice, diagnosis, or treatment.",
      Rule>>

\* formatErrorResponse(query, errorMessage)
formatErrorResponse(q, errorMessage) ==
    <<"SYMPTOM ANALYSIS REPORT", Rule, "",
      "SYMPTOMS ANALYZED: " \o q,
      "",
      "SEVERITY ASSESSMENT",
      "   yellow Score: 5/10 | Level: Moderate",
      "   yellow Urgency: Same Day",
      "",
      "GENERAL ASSESSMENT",
      "   Based on your symptoms, this appears to be a health concern that requires attention and monitoring.",
      "",
      "IMMEDIATE ACTIONS",
      "   + Monitor your symptoms closely",
      "   + Rest and stay hydrated",
      "   + Avoid strenuous activities",
      "",
      "SELF-CARE RECOMMENDATIONS",
      "   - Get adequate rest and sleep",
      "   - Stay well hydrated with water",
      "   - Maintain a comfortable environment",
      "",
      "WARNING SIGNS TO WATCH",
      "   ! Symptoms getting worse rapidly",
      "   ! Severe pain or discomfort",
      "   ! Difficulty breathing or chest pain",
      "",
      "WHEN TO SEEK MEDICAL HELP",
      "   If symptoms persist for more than 2-3 days, worsen, or if you develop any warning signs, consult a healthcare professional immediately.",
      "", Rule,
      "MEDICAL DISCLAIMER",
      "   This is general health information only. For accurate medical advice, please consult with a qualified healthcare provider.",
      "",
      "   Note: " \o errorMessage \o ". Please try again later or consult with a healthcare professional directly.",
      Rule>>

\* -------------------------------------------------------- queryNLPService
Return(v) == [threw |-> FALSE, value |-> v]
Throw(e) == [threw |-> TRUE, error |-> e]

\* the error JSON.parse raises
SyntaxError == [hasMessage |-> TRUE, message |-> <<"Unexpected token in JSON">>]

\* the object both fallback branches of the inner try/catch return
FallbackResult(q, text) ==
    [formattedMessage |-> formatFallbackResponse(q, text),
     severityScore |-> Num(5),
     urgency |-> Str("Same Day"),
     recommendedAction |-> Str("Book an appointment soon")]

\* variant: the score is capped at 9
StructuredResultCapped(jsonData, report) ==
    [formattedMessage |-> report,
     severityScore |->
        IF JSGreater(jsonData["severity_score"], 9) THEN Num(9)
        ELSE JSOr(jsonData["severity_score"], Num(0)),
     urgency |-> JSOr(jsonData["urgency"], Str("Routine")),
     recommendedAction |-> JSOr(jsonData["recommended_action"], Str(""))]

StructuredResult(jsonData, report) ==
    [formattedMessage |-> report,
     severityScore |-> JSOr(jsonData["severity_score"], Num(0)),
     urgency |-> JSOr(jsonData["urgency"], Str("Routine")),
     recommendedAction |-> JSOr(jsonData["recommended_action"], Str(""))]

\* the body of the inner try: match, parse, format
InnerTry(q, text) ==
    LET jsonMatch == JsonMatch(text)
    IN  IF jsonMatch # NoMatch
        THEN LET parsed == JSONParse(jsonMatch)
             IN  IF ~parsed.ok THEN Throw(SyntaxError)
                 ELSE LET report == formatSymptomAnalysis(parsed.obj)
                      IN  IF report.threw THEN Throw(report.error)
                          ELSE Return(StructuredResult(parsed.obj, report.value))
        ELSE Return(FallbackResult(q, text))

\* variant: the inner try without its catch
ParseResponseNoCatch(q, text) == InnerTry(q, text)

\* the inner try with its catch (parseError)
ParseResponse(q, text) ==
    LET r == InnerTry(q, text)
    IN  IF r.threw THEN Return(FallbackResult(q, text)) ELSE r

\* error.message && error.message.includes(word)
MessageIncludes(error, word) ==
    /\ error.hasMessage
    /\ error.message # <<>>
    /\ \E i \in 1..Len(error.message) : error.message[i] = word

QuotaMessage == "AI service quota exceeded. Please try again later"
NotFoundMessage == "AI model temporarily unavailable"
AuthMessage == "AI service authentication failed"
GenericMessage == "AI service temporarily unavailable"

\* variant: the 404 test comes before the quota test
ErrorMessageNotFoundFirst(error) ==
    IF MessageIncludes(error, "404") THEN NotFoundMessage
    ELSE IF MessageIncludes(error, "quota") THEN QuotaMessage
    ELSE IF MessageIncludes(error, "401") THEN AuthMessage
    ELSE GenericMessage

ErrorMessage(error) ==
    IF MessageIncludes(error, "quota") THEN QuotaMessage
    ELSE IF MessageIncludes(error, "404") THEN NotFoundMessage
    ELSE IF MessageIncludes(error, "401") THEN AuthMessage
    ELSE GenericMessage

\* variant: a quota error is reported as routine
CatchErrorQuotaRoutine(q, error) ==
    Return([formattedMessage |-> formatErrorResponse(q, ErrorMessage(error)),
            severityScore |-> IF MessageIncludes(error, "quota") THEN Num(0) ELSE Num(5),
            urgency |->
                IF MessageIncludes(error, "quota") THEN Str("Routine")
                ELSE Str("Same Day"),
            recommendedAction |->
                Str("Book an appointment soon to discuss your symptoms")])

\* the outer catch (error)
CatchError(q, error) ==
    Return([formattedMessage |-> formatErrorResponse(q, ErrorMessage(error)),
            severityScore |-> Num(5),
            urgency |-> Str("Same Day"),
            recommendedAction |->
                Str("Book an appointment soon to discuss your symptoms")])

\* the body of the outer try, from the settled generateContent call on
OuterTry(q, outcome) ==
    IF outcome.kind = "error" THEN Throw(outcome.error)
    ELSE ParseResponse(q, outcome.text)

\* variant: the outer try without its catch
queryNLPServiceNoCatch(q, outcome) == OuterTry(q, outcome)

queryNLPService(q, outcome) ==
    LET r == OuterTry(q, outcome)
    IN  IF r.threw THEN CatchError(q, r.error) ELSE r

\* ------------------------------------------------------ triage: the inputs
Queries == {"mild headache since this morning", "knee pain"}

SeverityValues == {Undefined, Str("high")} \cup {Num(n) : n \in 0..10}
UrgencyValues == {Undefined, Str("Routine"), Str("Same Day"), Str("Urgent"), Num(3)}
ActionValues == {Undefined, Str("Book urgent care appointment")}
ListValues == {Undefined, Arr(<<"rest", "hydrate">>), Str("rest")}
FieldValues == {Undefined, Str("text")}

JsonObject(pa, fa, ws, sev, wh, ur, ra, di) ==
    [key \in Keys |->
        CASE key = "primary_assessment" -> pa
          [] key = "first_aid_tips" -> fa
          [] key = "warning_signs" -> ws
          [] key = "severity_score" -> sev
          [] key = "when_to_seek_help" -> wh
          [] key = "urgency" -> ur
          [] key = "recommended_action" -> ra
          [] key = "disclaimer" -> di]

\* the members of an object as the AI writes them; an undefined field is absent
Members(o) ==
    LET all == [i \in 1..Len(KeyOrder) |-> Member(KeyOrder[i], o[KeyOrder[i]])]
    IN  SelectSeq(all, LAMBDA m : m.v # Undefined)

JsonObjects ==
    {JsonObject(pa, fa, ws, sev, wh, ur, ra, di) :
        pa \in FieldValues, fa \in ListValues, ws \in ListValues,
        sev \in SeverityValues, wh \in FieldValues, ur \in UrgencyValues,
        ra \in ActionValues, di \in FieldValues}

\* one object, alone or after a line of prose
ObjectTexts ==
    {pre \o <<Open>> \o Members(o) \o <<Close>> :
        pre \in {<<>>, <<Prose>>}, o \in JsonObjects}

SchemaObject ==
    JsonObject(Str("text"), Arr(<<"rest", "hydrate">>), Arr(<<"fever">>), Num(7),
               Str("text"), Str("Urgent"), Str("Book urgent care appointment"),
               Str("text"))

Chunks ==
    {<<Open>>, <<Close>>, <<Prose>>, Members(SchemaObject),
     <<Member("severity_score", Num(3))>>}

RECURSIVE Concat(_)
Concat(cs) == IF Len(cs) = 0 THEN <<>> ELSE cs[1] \o Concat(Tail(cs))

\* braces, prose and member lists in any order
ChunkTexts ==
    {Concat(cs) : cs \in UNION {[1..n -> Chunks] : n \in 0..MaxChunks}}

Texts == ObjectTexts \cup ChunkTexts

Words == {"quota", "404", "401", "failed"}

Errors ==
    {[hasMessage |-> FALSE, message |-> <<>>]}
    \cup {[hasMessage |-> TRUE, message |-> m] :
            m \in UNION {[1..n -> Words] : n \in 0..MaxWords}}

Outcomes ==
    {[kind |-> "text", text |-> t] : t \in Texts}
    \cup {[kind |-> "error", error |-> e] : e \in Errors}

NoResult == [state |-> "none"]
Settled(r) ==
    IF r.threw THEN [state |-> "thrown", error |-> r.error]
    ELSE [state |-> "returned", value |-> r.value]

\* ----------------------------------------------------- triage: the actions
\* queryNLPService up to its await of model.generateContent(prompt)
CallGenerateContent ==
    /\ tpc = "start"
    /\ tpc' = "awaiting"
    /\ UNCHANGED <<query, aiOutcome, tresult, appts, lastWrite>>
    /\ UNCHANGED workflowVars
    /\ UNCHANGED peripheryVars

\* the call resolved with a text: the inner try/catch runs
GenerateContentResolves ==
    /\ tpc = "awaiting"
    /\ aiOutcome.kind = "text"
    /\ tresult' = Settled(queryNLPService(query, aiOutcome))
    /\ tpc' = "done"
    /\ UNCHANGED <<query, aiOutcome, appts, lastWrite>>
    /\ UNCHANGED workflowVars
    /\ UNCHANGED peripheryVars

\* the call rejected: the outer catch runs
GenerateContentRejects ==
    /\ tpc = "awaiting"
    /\ aiOutcome.kind = "error"
    /\ tresult' = Settled(queryNLPService(query, aiOutcome))
    /\ tpc' = "done"
    /\ UNCHANGED <<query, aiOutcome, appts, lastWrite>>
    /\ UNCHANGED workflowVars
    /\ UNCHANGED peripheryVars

\* ------------------------------------------------- the Appointment schema
UrgencyLevelEnum == {"Routine", "Non-Urgent", "Urgent", "Emergency"}
StatusEnum == {"pending", "confirmed", "cancelled", "completed"}
MinUrgencyScore == 0
MaxUrgencyScore == 10

\* variant: the gate applies only to a document that has a score
ScoreGatedValidator(this, value) ==
    IF this.urgencyScore > 0 /\ ~this.fromSymptomChecker /\ value # "Routine"
    THEN FALSE ELSE TRUE

\* variant: the gate does not read fromSymptomChecker
FlagBlindValidator(this, value) ==
    IF value # "Routine" THEN FALSE ELSE TRUE

\* variant: the gate does not read the value
ValueBlindValidator(this, value) ==
    IF ~this.fromSymptomChecker THEN FALSE ELSE TRUE

\* urgencyLevel.validate.validator, with `this` the document being validated
urgencyLevelValidator(this, value) ==
    IF ~this.fromSymptomChecker /\ value # "Routine" THEN FALSE ELSE TRUE

\* the schema defaults of the paths a write left undefined
ApplyDefaults(fields) ==
    [urgencyLevel |->
        IF fields.urgencyLevel = Undefined THEN "Routine" ELSE fields.urgencyLevel.s,
     urgencyScore |->
        IF fields.urgencyScore = Undefined THEN 0 ELSE fields.urgencyScore.n,
     fromSymptomChecker |->
        IF fields.fromSymptomChecker = Undefined THEN FALSE
        ELSE fields.fromSymptomChecker.b,
     status |-> IF fields.status = Undefined THEN "confirmed" ELSE fields.status.s]

\* the validators of the schema that reject the document
ValidationErrors(doc) ==
    {e \in {"urgencyLevel.enum", "urgencyLevel.validate", "urgencyScore.min",
            "urgencyScore.max", "status.enum"} :
        CASE e = "urgencyLevel.enum" -> doc.urgencyLevel \notin UrgencyLevelEnum
          [] e = "urgencyLevel.validate" ->
                ~urgencyLevelValidator(doc, doc.urgencyLevel)
          [] e = "urgencyScore.min" -> doc.urgencyScore < MinUrgencyScore
          [] e = "urgencyScore.max" -> doc.urgencyScore > MaxUrgencyScore
          [] e = "status.enum" -> doc.status \notin StatusEnum}

\* ------------------------------------------ writes to the collection
NoDoc == [absent |-> TRUE]
NoWrite == [op |-> "none"]

SubmittedLevels == {Undefined, Str("Routine"), Str("Urgent"), Str("Same Day")}
SubmittedScores == {Undefined, Num(0), Num(7), Num(11)}
SubmittedFlags == {Undefined, Bool(FALSE), Bool(TRUE)}

\* the urgency fields a request may carry, each possibly absent
UrgencyFields ==
    [urgencyLevel : SubmittedLevels, urgencyScore : SubmittedScores,
     fromSymptomChecker : SubmittedFlags]

\* POST /appointments: the urgency fields of a submission that does not
\* come from the symptom checker are replaced by Routine / 0
CoerceUrgency(req) ==
    IF req.fromSymptomChecker = Bool(TRUE)
    THEN [urgencyLevel |-> req.urgencyLevel, urgencyScore |-> req.urgencyScore,
          fromSymptomChecker |-> Bool(TRUE), status |-> Undefined]
    ELSE [urgencyLevel |-> Str("Routine"), urgencyScore |-> Num(0),
          fromSymptomChecker |-> req.fromSymptomChecker, status |-> Undefined]

\* the document an update proposes: the stored one with the patched paths
Patched(doc, patch) ==
    [urgencyLevel |->
        IF patch.urgencyLevel = Undefined THEN doc.urgencyLevel
        ELSE patch.urgencyLevel.s,
     urgencyScore |->
        IF patch.urgencyScore = Undefined THEN doc.urgencyScore
        ELSE patch.urgencyScore.n,
     fromSymptomChecker |->
        IF patch.fromSymptomChecker = Undefined THEN doc.fromSymptomChecker
        ELSE patch.fromSymptomChecker.b,
     status |-> doc.status]

\* validate the proposed document, then persist it or reject the write
Write(op, id, req, proposed) ==
    LET errors == ValidationErrors(proposed)
    IN  /\ lastWrite' = [op |-> op, id |-> id, request |-> req,
                         before |-> appts[id], proposed |-> proposed,
                         outcome |-> IF errors = {} THEN "ok" ELSE "ValidationError",
                         errors |-> errors]
        /\ appts' = IF errors = {} THEN [appts EXCEPT ![id] = proposed] ELSE appts

CreateAppointment ==
    \E req \in UrgencyFields :
        \E id \in 1..MaxDocs :
            /\ appts[id] = NoDoc
            /\ \A j \in 1..(id - 1) : appts[j] # NoDoc
            /\ Write("create", id, req, ApplyDefaults(CoerceUrgency(req)))
            /\ UNCHANGED triageVars
            /\ UNCHANGED workflowVars
            /\ UNCHANGED peripheryVars

UpdateAppointment ==
    \E patch \in UrgencyFields :
        \E id \in 1..MaxDocs :
            /\ appts[id] # NoDoc
            /\ Write("update", id, patch, Patched(appts[id], patch))
            /\ UNCHANGED triageVars
            /\ UNCHANGED workflowVars
            /\ UNCHANGED peripheryVars

\* ------------------------------------------------------- specifications
InitTriage ==
    /\ tpc = "start"
    /\ query \in Queries
    /\ aiOutcome \in Outcomes
    /\ tresult = NoResult
    /\ appts = [id \in 1..MaxDocs |-> NoDoc]
    /\ lastWrite = NoWrite
    /\ WorkflowIdle
    /\ PeripheryIdle

NextTriage ==
    \/ CallGenerateContent
    \/ GenerateContentResolves
    \/ GenerateContentRejects

SpecTriage == InitTriage /\ [][NextTriage]_vars

InitAppointment ==
    /\ tpc = "start"
    /\ query = "knee pain"
    /\ aiOutcome = [kind |-> "text", text |-> <<>>]
    /\ tresult = NoResult
    /\ appts = [id \in 1..MaxDocs |-> NoDoc]
    /\ lastWrite = NoWrite
    /\ WorkflowIdle
    /\ PeripheryIdle

NextAppointment ==
    \/ CreateAppointment
    \/ UpdateAppointment

SpecAppointment == InitAppointment /\ [][NextAppointment]_vars

\* ------------------------------------------- the symptom-check controller
\* a controller that answers 'Routine' whatever the client returned
checkSymptomsRoutine(settled) ==
    IF settled.state = "thrown"
    THEN [status |-> 500, body |-> [error |-> settled.error.message]]
    ELSE LET result == settled.value
         IN  [status |-> 200,
              body |-> [message |-> IF Len(result.formattedMessage) > 0
                                    THEN result.formattedMessage ELSE result,
                        severityScore |-> JSOr(result.severityScore, Num(0)),
                        urgency |-> Str("Routine"),
                        recommendedAction |-> JSOr(result.recommendedAction, Str(""))]]

\* exports.checkSymptoms after its await of queryNLPService(symptoms): the
\* try answers 200 with the || defaults, the catch answers 500.
\* result.message is undefined on the client's result object.
checkSymptoms(settled) ==
    IF settled.state = "thrown"
    THEN [status |-> 500, body |-> [error |-> settled.error.message]]
    ELSE LET result == settled.value
         IN  [status |-> 200,
              body |-> [message |-> IF Len(result.formattedMessage) > 0
                                    THEN result.formattedMessage ELSE result,
                        severityScore |-> JSOr(result.severityScore, Num(0)),
                        urgency |-> JSOr(result.urgency, Str("Routine")),
                        recommendedAction |-> JSOr(result.recommendedAction, Str(""))]]

\* queryNLPService has settled: the controller sends its response
CheckSymptomsResponds ==
    /\ tpc = "done"
    /\ response = NoResponse
    /\ response' = checkSymptoms(tresult)
    /\ tpc' = "responded"
    /\ UNCHANGED <<query, aiOutcome, tresult>>
    /\ UNCHANGED apptVars
    /\ UNCHANGED workflowVars
    /\ UNCHANGED <<raceVars, feedbackVars, formVars>>

NextSymptomCheck ==
    \/ CallGenerateContent
    \/ GenerateContentResolves
    \/ GenerateContentRejects
    \/ CheckSymptomsResponds

SpecSymptomCheck == InitTriage /\ [][NextSymptomCheck]_vars

\* --------------------------------------------- booking from a triage result
\* the triage result is carried into the booking form and submitted as a
\* symptom-checker booking: urgencyLevel and urgencyScore are the result's
\* urgency and severityScore
BookFromTriage ==
    /\ tpc = "done"
    /\ tresult.state = "returned"
    /\ tresult.value.severityScore.t = "number"
    /\ tresult.value.urgency.t = "string"
    /\ LET req == [urgencyLevel |-> tresult.value.urgency,
                   urgencyScore |-> tresult.value.severityScore,
                   fromSymptomChecker |-> Bool(TRUE)]
       IN  Write("create", 1, req, ApplyDefaults(CoerceUrgency(req)))
    /\ tpc' = "booked"
    /\ UNCHANGED <<query, aiOutcome, tresult>>
    /\ UNCHANGED workflowVars
    /\ UNCHANGED peripheryVars

BookingOutcomes ==
    {[kind |-> "text", text |-> t] : t \in ChunkTexts}
    \cup {[kind |-> "error", error |-> e] : e \in Errors}

InitBooking ==
    /\ tpc = "start"
    /\ query \in Queries
    /\ aiOutcome \in BookingOutcomes
    /\ tresult = NoResult
    /\ appts = [id \in 1..MaxDocs |-> NoDoc]
    /\ lastWrite = NoWrite
    /\ WorkflowIdle
    /\ PeripheryIdle

NextBooking ==
    \/ CallGenerateContent
    \/ GenerateContentResolves
    \/ GenerateContentRejects
    \/ BookFromTriage

SpecBooking == InitBooking /\ [][NextBooking]_vars

\* ------------------------------------------- AppointmentRequest: the workflow
\* a machine in which a rejected request may also be approved
StateMachineRejectedApprovable ==
    [pending |-> {"approved", "rejected"},
     approved |-> {"completed", "cancelled"},
     rejected |-> {"pending", "approved"},
     completed |-> {}]

\* a machine in which an approved request may go back to pending
StateMachineApprovedReopens ==
    [pending |-> {"approved", "rejected"},
     approved |-> {"completed", "cancelled", "pending"},
     rejected |-> {"pending"},
     completed |-> {}]

\* the statuses a status may be changed to, by the status the document had
appointmentStateMachine ==
    [pending |-> {"approved", "rejected"},
     approved |-> {"completed", "cancelled"},
     rejected |-> {"pending"},
     completed |-> {}]

NoError == "none"

\* appointmentSchema.pre('save'): the error handed to next(), or NoError.
\* this.isModified('status') is true when the status set differs from the one
\* loaded; this.previousStatus is the status loaded.  A status that is not a
\* key of the machine makes validTransitions undefined, and .includes throws.
preSave(previousStatus, status) ==
    IF status # previousStatus
    THEN IF previousStatus \notin DOMAIN appointmentStateMachine
         THEN "TypeError"
         ELSE IF status \notin appointmentStateMachine[previousStatus]
              THEN "Invalid status transition"
              ELSE NoError
    ELSE NoError

\* a role check that lets every role through
AnyRole(userRole) == TRUE

\* exports.isDoctor: next() is reached
isDoctor(userRole) == userRole = "doctor"

\* the roles of the two parties of the appointment
Parties == {"patient", "doctor"}

ScheduledDates == {"2024-02-01", "2024-02-02"}
MessageTexts == {"hello", "thanks"}
Unset == ""

\* the operations behind the isDoctor middleware
DoctorOnly == {"approve", "reject", "complete"}

\* a thread that stays open on rejected requests
ClosedStatuses == {"completed", "cancelled"}

\* the statuses on which the thread is closed
TerminalStatuses == {"completed", "rejected", "cancelled"}

\* the document a patient's booking creates
NewRequest ==
    [status |-> "pending",
     messages |-> <<>>,
     doctorResponse |-> [message |-> Unset, respondedAt |-> 0],
     scheduledDate |-> Unset,
     scheduledTime |-> Unset,
     createdAt |-> now,
     updatedAt |-> now]

CreateRequest ==
    /\ request = NoRequest
    /\ now < MaxClock
    /\ request' = NewRequest
    /\ lastOp' = [op |-> "create", actor |-> "patient", input |-> Unset,
                  before |-> NoRequest, outcome |-> "ok"]
    /\ now' = now + 1
    /\ appended' = appended
    /\ UNCHANGED triageVars
    /\ UNCHANGED apptVars
    /\ UNCHANGED peripheryVars

\* a push at the front of the thread
PushMessageFront(doc, m) == [doc EXCEPT !.messages = <<m>> \o @]

\* a save that leaves updatedAt as it was
SavedStale(doc) == doc

\* the document as save() persists it: updatedAt is refreshed
Saved(doc) == [doc EXCEPT !.updatedAt = now]

\* messages.push(m)
PushMessage(doc, m) == [doc EXCEPT !.messages = Append(@, m)]

\* one request on the stored document: the role check of the route, the
\* refusal of the handler, then save() with its pre-save hook; the document
\* is persisted with a fresh updatedAt or left as it was
Respond(op, actor, input, refused, proposed) ==
    LET error ==
            IF op \in DoctorOnly /\ ~isDoctor(actor) THEN "Forbidden"
            ELSE IF refused THEN "Refused"
            ELSE preSave(request.status, proposed.status)
    IN  /\ now < MaxClock
        /\ request' = IF error = NoError
                       THEN Saved(proposed)
                       ELSE request
        /\ lastOp' = [op |-> op, actor |-> actor, input |-> input,
                      before |-> request,
                      outcome |-> IF error = NoError THEN "ok" ELSE error]
        /\ now' = now + 1
        /\ UNCHANGED triageVars
        /\ UNCHANGED apptVars
        /\ UNCHANGED peripheryVars

ApproveRequest ==
    \E actor \in Parties, date \in ScheduledDates :
        /\ request # NoRequest
        /\ Respond("approve", actor, date, FALSE,
                   [request EXCEPT !.status = "approved",
                                   !.scheduledDate = date,
                                   !.scheduledTime = "10:00",
                                   !.doctorResponse.respondedAt = now])
        /\ appended' = appended

RejectRequest ==
    \E actor \in Parties, text \in MessageTexts :
        /\ request # NoRequest
        /\ Respond("reject", actor, text, FALSE,
                   [request EXCEPT !.status = "rejected",
                                   !.doctorResponse =
                                       [message |-> text, respondedAt |-> now]])
        /\ appended' = appended

CancelRequest ==
    \E actor \in Parties :
        /\ request # NoRequest
        /\ Respond("cancel", actor, Unset, FALSE,
                   [request EXCEPT !.status = "cancelled"])
        /\ appended' = appended

CompleteRequest ==
    \E actor \in Parties :
        /\ request # NoRequest
        /\ Respond("complete", actor, Unset, FALSE,
                   [request EXCEPT !.status = "completed"])
        /\ appended' = appended

\* the re-submission the state machine allows from rejected
ResubmitRequest ==
    /\ request # NoRequest
    /\ Respond("resubmit", "patient", Unset, FALSE,
               [request EXCEPT !.status = "pending"])
    /\ appended' = appended

AppendMessage ==
    \E actor \in Parties, text \in MessageTexts :
        LET m == [sender |-> actor, message |-> text, timestamp |-> now]
            refused == request.status \in TerminalStatuses
        IN  /\ request # NoRequest
            /\ Respond("append", actor, text, refused, PushMessage(request, m))
            /\ appended' = IF refused THEN appended ELSE Append(appended, m)

InitWorkflow ==
    /\ tpc = "start"
    /\ query = "knee pain"
    /\ aiOutcome = [kind |-> "text", text |-> <<>>]
    /\ tresult = NoResult
    /\ appts = [id \in 1..MaxDocs |-> NoDoc]
    /\ lastWrite = NoWrite
    /\ WorkflowIdle
    /\ PeripheryIdle

NextWorkflow ==
    \/ CreateRequest
    \/ ApproveRequest
    \/ RejectRequest
    \/ CancelRequest
    \/ CompleteRequest
    \/ ResubmitRequest
    \/ AppendMessage

SpecWorkflow == InitWorkflow /\ [][NextWorkflow]_vars

\* ------------------------------------- AppointmentRequest: requests that overlap
\* a handler is findById, the change of the loaded document, then save():
\* two awaits, between which the other handler may run

\* the loaded document after the handler's assignments
Proposed(doc, op, actor, input) ==
    CASE op = "approve" ->
            [doc EXCEPT !.status = "approved",
                        !.scheduledDate = input,
                        !.scheduledTime = "10:00",
                        !.doctorResponse.respondedAt = now]
      [] op = "reject" ->
            [doc EXCEPT !.status = "rejected",
                        !.doctorResponse = [message |-> input, respondedAt |-> now]]
      [] op = "cancel" -> [doc EXCEPT !.status = "cancelled"]
      [] op = "complete" -> [doc EXCEPT !.status = "completed"]
      [] op = "append" ->
            PushMessage(doc, [sender |-> actor, message |-> input, timestamp |-> now])

\* save() of a loaded document writes the paths that were modified: a path
\* the handler set to a new value is $set, a pushed message is $push-ed to
\* the stored thread, every other path keeps its stored value
WriteModified(stored, loaded, proposed) ==
    [status |-> IF proposed.status # loaded.status
                THEN proposed.status ELSE stored.status,
     messages |-> stored.messages
                    \o SubSeq(proposed.messages, Len(loaded.messages) + 1,
                              Len(proposed.messages)),
     doctorResponse |->
        [message |-> IF proposed.doctorResponse.message # loaded.doctorResponse.message
                     THEN proposed.doctorResponse.message
                     ELSE stored.doctorResponse.message,
         respondedAt |->
            IF proposed.doctorResponse.respondedAt # loaded.doctorResponse.respondedAt
            THEN proposed.doctorResponse.respondedAt
            ELSE stored.doctorResponse.respondedAt],
     scheduledDate |-> IF proposed.scheduledDate # loaded.scheduledDate
                       THEN proposed.scheduledDate ELSE stored.scheduledDate,
     scheduledTime |-> IF proposed.scheduledTime # loaded.scheduledTime
                       THEN proposed.scheduledTime ELSE stored.scheduledTime,
     createdAt |-> stored.createdAt,
     updatedAt |-> now]

RequestInputs(op) ==
    CASE op = "approve" -> ScheduledDates
      [] op \in {"reject", "append"} -> MessageTexts
      [] OTHER -> {Unset}

\* a request arrives: the role check, then findById
HandlerLoads(h) ==
    \E op \in {"approve", "reject", "cancel", "complete", "append"}, actor \in Parties :
        \E input \in RequestInputs(op) :
            /\ request # NoRequest
            /\ now < MaxClock
            /\ handlers[h].pc = "idle"
            /\ handlers' = [handlers EXCEPT ![h] =
                    IF op \in DoctorOnly /\ ~isDoctor(actor)
                    THEN [pc |-> "done", op |-> op, actor |-> actor, input |-> input,
                          loaded |-> request, outcome |-> "Forbidden"]
                    ELSE [pc |-> "loaded", op |-> op, actor |-> actor, input |-> input,
                          loaded |-> request, outcome |-> "pending"]]
            /\ UNCHANGED <<request, lastOp, appended, now>>
            /\ UNCHANGED triageVars
            /\ UNCHANGED apptVars
            /\ UNCHANGED <<controllerVars, feedbackVars, formVars>>

\* the handler changes the document it loaded and saves it
HandlerSaves(h) ==
    LET r == handlers[h]
        proposed == Proposed(r.loaded, r.op, r.actor, r.input)
        error == IF r.op = "append" /\ r.loaded.status \in TerminalStatuses
                 THEN "Refused"
                 ELSE preSave(r.loaded.status, proposed.status)
    IN  /\ r.pc = "loaded"
        /\ request' = IF error = NoError
                       THEN WriteModified(request, r.loaded, proposed)
                       ELSE request
        /\ handlers' = [handlers EXCEPT ![h] =
                [r EXCEPT !.pc = "done",
                          !.outcome = IF error = NoError THEN "ok" ELSE error]]
        /\ now' = now + 1
        /\ UNCHANGED <<lastOp, appended>>
        /\ UNCHANGED triageVars
        /\ UNCHANGED apptVars
        /\ UNCHANGED <<controllerVars, feedbackVars, formVars>>

Loads == \E h \in HandlerIds : HandlerLoads(h)
Saves == \E h \in HandlerIds : HandlerSaves(h)

NextRace ==
    \/ CreateRequest
    \/ Loads
    \/ Saves

SpecRace == InitWorkflow /\ [][NextRace]_vars

\* ------------------------------------------------------------- feedback
MinRating == 1
MaxRating == 5
SubmittedRatings == {0, 3, 5, 6}

\* POST /api/feedback for the appointment: the Feedback document is created
\* when its rating passes the schema; the appointment's status is not looked
\* at and no earlier feedback of the appointment is looked for
SubmitFeedback ==
    \E rating \in SubmittedRatings :
        /\ request # NoRequest
        /\ now < MaxClock
        /\ feedbacks' =
              IF rating >= MinRating /\ rating <= MaxRating
              THEN Append(feedbacks, [rating |-> rating, status |-> request.status,
                                      createdAt |-> now])
              ELSE feedbacks
        /\ now' = now + 1
        /\ UNCHANGED <<request, lastOp, appended>>
        /\ UNCHANGED triageVars
        /\ UNCHANGED apptVars
        /\ UNCHANGED <<controllerVars, raceVars, formVars>>

NextFeedback ==
    \/ CreateRequest
    \/ ApproveRequest
    \/ RejectRequest
    \/ CancelRequest
    \/ CompleteRequest
    \/ SubmitFeedback

SpecFeedback == InitWorkflow /\ [][NextFeedback]_vars

\* ------------------------------------------------ BookAppointment: the page
\* location.state of the navigation: null, or an object whose keys may be
\* absent (undefined)
LocationStates ==
    {Null} \cup
    [t : {"object"},
     fromSymptomChecker : {Undefined, Bool(FALSE), Bool(TRUE)},
     urgencyLevel : {Undefined, Str("Urgent")},
     severityScore : {Undefined, Num(7)},
     symptoms : {Undefined, Str("knee pain")}]

\* useAuth().userData: null, or the authenticated user
Users == {Null, [t |-> "object", medicalId |-> "PAT001"]}

\* state?.key
Optional(state, key) == IF state = Null THEN Undefined ELSE state[key]

\* the argument of useState for formData, evaluated at mount
InitialFormData(state, user) ==
    [doctorMedicalId |-> "",
     patientMedicalId |-> IF user = Null THEN "" ELSE user.medicalId,
     preferredDate |-> "",
     preferredTime |-> "",
     symptoms |-> IF Falsy(Optional(state, "symptoms")) THEN ""
                  ELSE Optional(state, "symptoms").s,
     contactInfo |-> "",
     notificationType |-> "email",
     meetingType |-> "offline",
     urgencyLevel |-> JSOr(Optional(state, "urgencyLevel"), Str("Routine")),
     urgencyScore |-> IF Optional(state, "severityScore") = Undefined
                      THEN Num(0) ELSE Optional(state, "severityScore")]

\* what the user can type or select in the form
FieldEntries ==
    [doctorMedicalId |-> "DOC001", preferredDate |-> "2024-03-01",
     preferredTime |-> "09:30", symptoms |-> "headache", contactInfo |-> "555-0100"]

InitForm ==
    /\ tpc = "start"
    /\ query = "knee pain"
    /\ aiOutcome = [kind |-> "text", text |-> <<>>]
    /\ tresult = NoResult
    /\ appts = [id \in 1..MaxDocs |-> NoDoc]
    /\ lastWrite = NoWrite
    /\ WorkflowIdle
    /\ ControllerIdle
    /\ RaceIdle
    /\ FeedbackIdle
    /\ locationState \in LocationStates
    /\ userData \in Users
    /\ authLoading \in BOOLEAN
    /\ formData = InitialFormData(locationState, userData)
    /\ loading = TRUE
    /\ doctorsFetch = "pending"
    /\ inFlight = <<>>
    /\ snackbar = [open |-> FALSE, message |-> "", severity |-> "success"]
    /\ lastSubmit = NoSubmit

\* a render that returns the spinner and not the form
FormRenderedAlways == TRUE

\* the render reaches the form: not (loading || authLoading)
FormRendered == ~(loading \/ authLoading)

\* the disabled selector with value "Routine" is shown
ShowsRoutineSelector == Falsy(Optional(locationState, "fromSymptomChecker"))

NotForm == <<triageVars, apptVars, workflowVars, controllerVars, raceVars, feedbackVars>>

\* fetchDoctors: getAllDoctors() resolved or rejected; both set loading false
DoctorsFetchSettles ==
    /\ doctorsFetch = "pending"
    /\ doctorsFetch' = "settled"
    /\ loading' = FALSE
    /\ UNCHANGED <<locationState, userData, authLoading, formData, inFlight,
                   snackbar, lastSubmit>>
    /\ UNCHANGED NotForm

\* the auth context finishes loading, or the user logs in or out
AuthChanges ==
    /\ userData' \in Users
    /\ authLoading' = FALSE
    /\ userData' # userData \/ authLoading
    /\ UNCHANGED <<locationState, formData, loading, doctorsFetch, inFlight,
                   snackbar, lastSubmit>>
    /\ UNCHANGED NotForm

\* an onChange of one of the inputs
EditField ==
    /\ FormRendered
    /\ \/ \E name \in DOMAIN FieldEntries :
             formData' = [formData EXCEPT ![name] =
                             IF @ = "" THEN FieldEntries[name] ELSE ""]
       \/ formData' = [formData EXCEPT !.meetingType =
                           IF @ = "online" THEN "offline" ELSE "online"]
    /\ UNCHANGED <<locationState, userData, authLoading, loading, doctorsFetch,
                   inFlight, snackbar, lastSubmit>>
    /\ UNCHANGED NotForm

\* an object literal that spreads formData and keeps its patientMedicalId
AppointmentDataFromForm(form, user) ==
    [form EXCEPT !.urgencyScore = form.urgencyScore,
                 !.urgencyLevel = form.urgencyLevel]

\* { ...formData, patientMedicalId: userData.medicalId, urgencyScore, urgencyLevel }
AppointmentData(form, user) ==
    [form EXCEPT !.patientMedicalId = user.medicalId,
                 !.urgencyScore = form.urgencyScore,
                 !.urgencyLevel = form.urgencyLevel]

\* a reset that also returns the urgency to its defaults
ResetFormWithUrgency(form) ==
    [form EXCEPT !.doctorMedicalId = "", !.preferredDate = "",
                 !.preferredTime = "", !.symptoms = "", !.contactInfo = "",
                 !.urgencyLevel = Str("Routine"), !.urgencyScore = Num(0)]

\* setFormData({ ...formData, doctorMedicalId: '', preferredDate: '',
\*               preferredTime: '', symptoms: '', contactInfo: '' })
ResetForm(form) ==
    [form EXCEPT !.doctorMedicalId = "", !.preferredDate = "",
                 !.preferredTime = "", !.symptoms = "", !.contactInfo = ""]

\* payload.key as the receiver of the request reads it
Carried(payload, key) ==
    IF key \in DOMAIN payload THEN payload[key] ELSE Undefined

SuccessSnackbar ==
    [open |-> TRUE, message |-> "Appointment request sent successfully!",
     severity |-> "success"]

ErrorSnackbar ==
    [open |-> TRUE, message |-> "Failed to book appointment. Please try again.",
     severity |-> "error"]

\* handleSubmit up to its await: with no user, userData.medicalId throws in
\* the try block and the catch and finally blocks run at once
HandleSubmit ==
    /\ FormRendered
    /\ IF userData = Null
       THEN /\ snackbar' = ErrorSnackbar
            /\ loading' = FALSE
            /\ inFlight' = inFlight
            /\ lastSubmit' = [sent |-> "nothing"]
       ELSE /\ loading' = TRUE
            /\ inFlight' = Append(inFlight,
                               [payload |-> AppointmentData(formData, userData),
                                formData |-> formData,
                                userData |-> userData])
            /\ snackbar' = snackbar
            /\ lastSubmit' = [sent |-> "request"]
    /\ UNCHANGED <<locationState, userData, authLoading, formData, doctorsFetch>>
    /\ UNCHANGED NotForm

\* createAppointmentRequest resolved: the rest of the try block, then finally
RequestResolves ==
    /\ inFlight # <<>>
    /\ snackbar' = SuccessSnackbar
    /\ formData' = ResetForm(Head(inFlight).formData)
    /\ loading' = FALSE
    /\ inFlight' = Tail(inFlight)
    /\ UNCHANGED <<locationState, userData, authLoading, doctorsFetch, lastSubmit>>
    /\ UNCHANGED NotForm

\* createAppointmentRequest rejected: catch, then finally
RequestRejects ==
    /\ inFlight # <<>>
    /\ snackbar' = ErrorSnackbar
    /\ loading' = FALSE
    /\ inFlight' = Tail(inFlight)
    /\ UNCHANGED <<locationState, userData, authLoading, formData, doctorsFetch,
                   lastSubmit>>
    /\ UNCHANGED NotForm

\* the snackbar's onClose, by the user or after autoHideDuration
SnackbarClose ==
    /\ snackbar.open
    /\ ~(loading \/ authLoading)
    /\ snackbar' = [snackbar EXCEPT !.open = FALSE]
    /\ UNCHANGED <<locationState, userData, authLoading, formData, loading,
                   doctorsFetch, inFlight, lastSubmit>>
    /\ UNCHANGED NotForm

NextForm ==
    \/ DoctorsFetchSettles
    \/ AuthChanges
    \/ EditField
    \/ HandleSubmit
    \/ RequestResolves
    \/ RequestRejects
    \/ SnackbarClose

SpecForm == InitForm /\ [][NextForm]_vars

\* a request that was sent is answered or fails: the promise settles
SpecFormLive == SpecForm /\ WF_vars(RequestResolves \/ RequestRejects)

\* ====================================================== properties
Stored == {id \in 1..MaxDocs : appts[id] # NoDoc}

\* C1: every stored appointment whose urgencyLevel is not 'Routine' has
\* fromSymptomChecker = true, after any sequence of creates and updates.
C1_UrgencyGating ==
    \A id \in Stored :
        appts[id].urgencyLevel # "Routine" => appts[id].fromSymptomChecker

\* an update that only clears fromSymptomChecker on an Urgent record was refused
C1_Witness ==
    /\ lastWrite.op = "update"
    /\ lastWrite.request =
         [urgencyLevel |-> Undefined, urgencyScore |-> Undefined,
          fromSymptomChecker |-> Bool(FALSE)]
    /\ lastWrite.before.urgencyLevel = "Urgent"
    /\ lastWrite.outcome = "ValidationError"
    /\ appts[lastWrite.id].urgencyLevel = "Urgent"

\* C2: a write whose proposed values have urgencyLevel # 'Routine' and
\* fromSymptomChecker = false is rejected with a ValidationError and leaves the
\* record as it was; a write whose proposed urgencyLevel is 'Routine', or whose
\* proposed fromSymptomChecker is true, is not rejected by the gate, and is
\* stored when the enum and the score range accept it too.
C2_GateOnWrite ==
    lastWrite.op \in {"create", "update"} =>
        LET p == lastWrite.proposed
            gated == p.urgencyLevel # "Routine" /\ ~p.fromSymptomChecker
        IN  /\ gated =>
                /\ lastWrite.outcome = "ValidationError"
                /\ appts[lastWrite.id] = lastWrite.before
            /\ ~gated =>
                /\ "urgencyLevel.validate" \notin lastWrite.errors
                /\ ( /\ p.urgencyLevel \in UrgencyLevelEnum
                     /\ p.urgencyScore \in MinUrgencyScore..MaxUrgencyScore )
                   => /\ lastWrite.outcome = "ok"
                      /\ appts[lastWrite.id] = p

\* an update that sets 'Urgent' and fromSymptomChecker = true in the same write
\* on a record that had fromSymptomChecker = false was stored
C2_Witness ==
    /\ lastWrite.op = "update"
    /\ lastWrite.before.fromSymptomChecker = FALSE
    /\ lastWrite.request.urgencyLevel = Str("Urgent")
    /\ lastWrite.request.fromSymptomChecker = Bool(TRUE)
    /\ lastWrite.outcome = "ok"
    /\ appts[lastWrite.id].urgencyLevel = "Urgent"

ResultFields == {"formattedMessage", "severityScore", "urgency", "recommendedAction"}

\* C4: queryNLPService returns a result with the four fields for every outcome
\* of the AI call, a text or a thrown error; it never throws.
C4_NeverThrows ==
    tpc = "done" =>
        /\ tresult.state = "returned"
        /\ DOMAIN tresult.value = ResultFields
        /\ \A f \in ResultFields \ {"formattedMessage"} : tresult.value[f] # Undefined
        /\ Len(tresult.value.formattedMessage) > 0

\* the AI call threw an error without a message and a result came back
C4_Witness ==
    /\ tpc = "done"
    /\ aiOutcome.kind = "error"
    /\ ~aiOutcome.error.hasMessage
    /\ tresult.state = "returned"

Failed == tpc = "done" /\ aiOutcome.kind = "error"
Answered == tpc = "done" /\ aiOutcome.kind = "text"

HasLine(report, line) == \E i \in 1..Len(report) : report[i] = line

NoteLine(message) ==
    "   Note: " \o message
        \o ". Please try again later or consult with a healthcare professional directly."

ServiceMessages == {QuotaMessage, NotFoundMessage, AuthMessage, GenericMessage}

\* the error message carries the word
Signal(word) ==
    /\ aiOutcome.error.hasMessage
    /\ \E i \in 1..Len(aiOutcome.error.message) : aiOutcome.error.message[i] = word

C6_ClassificationPriority ==
    Failed =>
        LET report == tresult.value.formattedMessage
        IN  /\ Signal("quota") => HasLine(report, NoteLine(QuotaMessage))
            /\ ~Signal("quota") /\ Signal("404") =>
                  HasLine(report, NoteLine(NotFoundMessage))
            /\ ~Signal("quota") /\ ~Signal("404") /\ Signal("401") =>
                  HasLine(report, NoteLine(AuthMessage))
            /\ ~Signal("quota") /\ ~Signal("404") /\ ~Signal("401") =>
                  HasLine(report, NoteLine(GenericMessage))
            /\ Cardinality({m \in ServiceMessages : HasLine(report, NoteLine(m))}) = 1

\* an error whose message names 401, then 404, then quota got the quota message
C6_Witness ==
    /\ Failed
    /\ aiOutcome.error.message = <<"401", "404", "quota">>
    /\ HasLine(tresult.value.formattedMessage, NoteLine(QuotaMessage))

\* the span from the first "{" to the last "}" is "{" members "}"
GreedySpanValid(text) ==
    \E i, j \in 1..Len(text) :
        /\ i < j
        /\ text[i] = Open /\ \A k \in 1..(i - 1) : text[k] # Open
        /\ text[j] = Close /\ \A k \in (j + 1)..Len(text) : text[k] # Close
        /\ \A k \in (i + 1)..(j - 1) : IsMember(text[k])

IsFallbackTuple(r) ==
    /\ r.severityScore = Num(5)
    /\ r.urgency = Str("Same Day")
    /\ r.recommendedAction = Str("Book an appointment soon")

\* C7: a text with no valid embedded JSON (empty, prose without braces, or a
\* brace span that does not parse) yields severityScore 5, urgency 'Same Day',
\* recommendedAction 'Book an appointment soon' and a report that echoes the
\* query and the raw text.
C7_FallbackTuple ==
    Answered /\ ~GreedySpanValid(aiOutcome.text) =>
        /\ tresult.state = "returned"
        /\ IsFallbackTuple(tresult.value)
        /\ HasLine(tresult.value.formattedMessage, "SYMPTOMS ANALYZED: " \o query)
        /\ HasLine(tresult.value.formattedMessage,
                   "   " \o TextString(aiOutcome.text))

\* a brace span holding prose came back as the fallback
C7_Witness ==
    /\ Answered
    /\ aiOutcome.text = <<Open, Prose, Close>>
    /\ IsFallbackTuple(tresult.value)
    /\ HasLine(tresult.value.formattedMessage, "   {x}")

UrgencyNames == {"Routine", "Same Day", "Urgent", "Emergency"}
TextKeys == {"primary_assessment", "when_to_seek_help", "disclaimer"}
ListKeys == {"first_aid_tips", "warning_signs"}

\* the value has the type the prompt's format gives the key
HasType(key, v) ==
    CASE key = "severity_score" -> v.t = "number"
      [] key \in ListKeys -> v.t = "array"
      [] OTHER -> v.t = "string"

\* the value is one the prompt's format allows for the key
WellTyped(key, v) ==
    /\ HasType(key, v)
    /\ key = "severity_score" => v.n \in 1..10
    /\ key = "urgency" => v.s \in UrgencyNames

MatchesSchema(o) == \A key \in Keys : WellTyped(key, o[key])

\* text[i..j] is "{" members "}"
ObjectAt(text, i, j) ==
    /\ i < j
    /\ text[i] = Open
    /\ text[j] = Close
    /\ \A k \in (i + 1)..(j - 1) : IsMember(text[k])

\* the value of a key among the members text[i+1..j-1]
ValueAt(text, i, j, key) ==
    LET at == {k \in (i + 1)..(j - 1) : text[k].k = key}
    IN  IF at = {} THEN Undefined ELSE text[MaxOf(at)].v

ObjectOf(text, i, j) == [key \in Keys |-> ValueAt(text, i, j, key)]

\* the object of the span from the first "{" to the last "}"
GreedyObject(text) ==
    LET i == MinOf({k \in 1..Len(text) : text[k] = Open})
        j == MaxOf({k \in 1..Len(text) : text[k] = Close})
    IN  ObjectOf(text, i, j)

Mirrors(r, o) ==
    /\ r.severityScore = o["severity_score"]
    /\ r.urgency = o["urgency"]
    /\ r.recommendedAction = o["recommended_action"]

\* C8 as stated: whenever the text contains a valid JSON object matching the
\* schema, the result's severityScore, urgency and recommendedAction are that
\* object's severity_score, urgency and recommended_action.
C8_AsStated ==
    Answered =>
        \A i, j \in 1..Len(aiOutcome.text) :
            ( /\ ObjectAt(aiOutcome.text, i, j)
              /\ MatchesSchema(ObjectOf(aiOutcome.text, i, j)) )
            => /\ tresult.state = "returned"
               /\ Mirrors(tresult.value, ObjectOf(aiOutcome.text, i, j))

\* C8: when the span from the first "{" to the last "}" of the text is a valid
\* JSON object matching the schema, severityScore equals its severity_score
\* exactly, for every value 1..10, and urgency and recommendedAction equal its
\* urgency and recommended_action.
C8_SeverityExact ==
    ( /\ Answered
      /\ GreedySpanValid(aiOutcome.text)
      /\ MatchesSchema(GreedyObject(aiOutcome.text)) )
    => /\ tresult.state = "returned"
       /\ Mirrors(tresult.value, GreedyObject(aiOutcome.text))
       /\ tresult.value.severityScore.t = "number"
       /\ tresult.value.severityScore.n \in 1..10

\* a schema object with severity_score 10 after a line of prose came back as 10
C8_Witness ==
    /\ Answered
    /\ Len(aiOutcome.text) > 0
    /\ aiOutcome.text[1] = Prose
    /\ GreedySpanValid(aiOutcome.text)
    /\ MatchesSchema(GreedyObject(aiOutcome.text))
    /\ GreedyObject(aiOutcome.text)["severity_score"] = Num(10)
    /\ tresult.value.severityScore = Num(10)

\* C9 as stated: when the embedded JSON parses but lacks some schema fields,
\* the result is built on the success branch: an absent severity_score gives 0,
\* an absent urgency 'Routine', an absent recommended_action the empty string,
\* the fields that are present are taken over, and the result is not the
\* 5 / 'Same Day' fallback.
C9_AsStated ==
    ( /\ Answered
      /\ GreedySpanValid(aiOutcome.text)
      /\ \A key \in Keys :
            \/ GreedyObject(aiOutcome.text)[key] = Undefined
            \/ WellTyped(key, GreedyObject(aiOutcome.text)[key])
      /\ \E key \in Keys : GreedyObject(aiOutcome.text)[key] = Undefined )
    => LET o == GreedyObject(aiOutcome.text)
           r == tresult.value
       IN  /\ tresult.state = "returned"
           /\ r.severityScore =
                IF o["severity_score"] = Undefined THEN Num(0) ELSE o["severity_score"]
           /\ r.urgency = IF o["urgency"] = Undefined THEN Str("Routine") ELSE o["urgency"]
           /\ r.recommendedAction =
                IF o["recommended_action"] = Undefined THEN Str("")
                ELSE o["recommended_action"]
           /\ ~IsFallbackTuple(r)

WellFormedResult(r) ==
    /\ DOMAIN r = ResultFields
    /\ r.severityScore.t = "number"
    /\ r.urgency.t = "string"
    /\ r.recommendedAction.t = "string"

\* the text has no brace span that parses, or its object has a field of an
\* unexpected type
Malformed(text) ==
    \/ ~GreedySpanValid(text)
    \/ \E key \in Keys :
          /\ GreedyObject(text)[key] # Undefined
          /\ ~HasType(key, GreedyObject(text)[key])

\* C10 as stated: the parser raises for no text, and every malformed text
\* (unbalanced braces, non-JSON brace content, JSON whose fields have
\* unexpected types) gives the fallback result, which is well formed.
C10_AsStated ==
    Answered =>
        /\ tresult.state = "returned"
        /\ WellFormedResult(tresult.value)
        /\ Malformed(aiOutcome.text) =>
              tresult.value = FallbackResult(query, aiOutcome.text)


\* ----------------------------------------------------------------- C11
\* the booking of a triage result has been submitted
Booked == tpc = "booked" /\ lastWrite.op = "create"

\* C11 as stated: when the AI call fails on quota, the client returns
\* severityScore 5, urgency 'Same Day', recommendedAction 'Book an appointment
\* soon' and a report that names the quota; the creation that follows with
\* fromSymptomChecker = true, urgencyLevel 'Same Day' and urgencyScore 5 is
\* accepted and the stored record has urgencyLevel 'Same Day'.
C11_AsStated ==
    Booked /\ aiOutcome.kind = "error" /\ Signal("quota") =>
        /\ tresult.value.severityScore = Num(5)
        /\ tresult.value.urgency = Str("Same Day")
        /\ tresult.value.recommendedAction = Str("Book an appointment soon")
        /\ HasLine(tresult.value.formattedMessage, NoteLine(QuotaMessage))
        /\ lastWrite.request = [urgencyLevel |-> Str("Same Day"),
                                urgencyScore |-> Num(5),
                                fromSymptomChecker |-> Bool(TRUE)]
        /\ lastWrite.outcome = "ok"
        /\ appts[1] # NoDoc
        /\ appts[1].urgencyLevel = "Same Day"


\* ------------------------------------------------------------ C12 .. C16
\* the last operation was requested on a stored AppointmentRequest
Operated == lastOp.op \notin {"none", "create"}

\* the status each status operation asks for
StatusRequested ==
    [approve |-> "approved", reject |-> "rejected", cancel |-> "cancelled",
     complete |-> "completed"]

\* the last operation was a status request that passed the role check
StatusAttempt ==
    /\ Operated
    /\ lastOp.op \in DOMAIN StatusRequested
    /\ lastOp.outcome # "Forbidden"

ListedTransitions ==
    {<<"pending", "approved">>, <<"pending", "rejected">>,
     <<"pending", "cancelled">>, <<"approved", "cancelled">>,
     <<"approved", "completed">>}

\* C12 as stated: the status changes only along pending -> approved, pending ->
\* rejected, pending -> cancelled, approved -> cancelled and approved ->
\* completed; every other requested status change, a request for the status
\* the record already has included, fails with the invalid-transition error
\* and leaves the record unchanged.
C12_AsStated ==
    Operated =>
        /\ request.status # lastOp.before.status =>
              <<lastOp.before.status, request.status>> \in ListedTransitions
        /\ StatusAttempt
              /\ <<lastOp.before.status, StatusRequested[lastOp.op]>>
                     \notin ListedTransitions =>
                 /\ lastOp.outcome = "Invalid status transition"
                 /\ request = lastOp.before

\* C13 as stated: on a completed record every status request (approve, reject,
\* cancel, complete) fails with the invalid-transition error, and the status
\* stays completed.
C13_AsStated ==
    Operated /\ lastOp.before.status = "completed" =>
        /\ request.status = "completed"
        /\ StatusAttempt => lastOp.outcome = "Invalid status transition"

C15_AsStated ==
    StatusAttempt /\ lastOp.op = "approve" =>
        /\ lastOp.before.status = "pending" =>
              /\ lastOp.outcome = "ok"
              /\ request.status = "approved"
              /\ request.scheduledDate = lastOp.input
              /\ request.doctorResponse.respondedAt > 0
              /\ request.updatedAt > lastOp.before.updatedAt
        /\ lastOp.before.status = "approved" =>
              /\ lastOp.outcome = "Invalid status transition"
              /\ request = lastOp.before

\* C16 as stated: every appointment record is created with status pending,
\* whatever the creation request contains.
C16_AsStated ==
    lastWrite.op = "create" /\ lastWrite.outcome = "ok" =>
        appts[lastWrite.id].status = "pending"


\* ------------------------------------------------------------ C17 .. C20
\* C17: the thread is the log of the accepted appends: after N accepted
\* appends, interleaved with any status requests, it has N entries, the k-th
\* being the k-th message appended.
C17_ThreadIsLog ==
    request # NoRequest =>
        /\ Len(request.messages) = Len(appended)
        /\ \A k \in 1..Len(appended) : request.messages[k] = appended[k]

\* two different messages, one sent before the approval and one after it
C17_Witness ==
    /\ request # NoRequest
    /\ request.status = "approved"
    /\ Len(appended) = 2
    /\ request.messages = appended
    /\ appended[1].message # appended[2].message
    /\ appended[1].timestamp < request.doctorResponse.respondedAt
    /\ request.doctorResponse.respondedAt < appended[2].timestamp

HoldsSchemaObject(text) ==
    \E i, j \in 1..Len(text) :
        ObjectAt(text, i, j) /\ MatchesSchema(ObjectOf(text, i, j))

\* C26: only the span from the first "{" to the last "}" is parsed: when that
\* span is a JSON object the severityScore, urgency and recommendedAction are
\* the ones the span alone would give, and
\* when the text holds a valid schema object but a "}" after it or a "{"
\* before it makes the span invalid, the result is the fallback result.
C26_GreedyExtraction ==
    Answered =>
        /\ GreedySpanValid(aiOutcome.text) =>
              LET alone == queryNLPService(query,
                               [kind |-> "text", text |-> JsonMatch(aiOutcome.text)])
              IN  /\ tresult.state = "returned"
                  /\ \A f \in ResultFields \ {"formattedMessage"} :
                        tresult.value[f] = alone.value[f]
        /\ HoldsSchemaObject(aiOutcome.text) /\ ~GreedySpanValid(aiOutcome.text) =>
              /\ tresult.state = "returned"
              /\ tresult.value = FallbackResult(query, aiOutcome.text)

\* a schema object followed by one more "}" came back as the fallback
C26_Witness ==
    /\ Answered
    /\ aiOutcome.text = <<Open>> \o Members(SchemaObject) \o <<Close, Close>>
    /\ HoldsSchemaObject(aiOutcome.text)
    /\ IsFallbackTuple(tresult.value)


\* ----------------------------------------------------------------- C22
\* C22: for every outcome of the AI call, a failure included, checkSymptoms
\* answers 200 with message, severityScore, urgency and recommendedAction all
\* defined, and the values are the ones the triage client returned.
C22_AlwaysAnswers ==
    tpc = "responded" =>
        /\ response.status = 200
        /\ DOMAIN response.body =
              {"message", "severityScore", "urgency", "recommendedAction"}
        /\ \A f \in DOMAIN response.body : response.body[f] # Undefined
        /\ response.body.message = tresult.value.formattedMessage
        /\ response.body.severityScore = tresult.value.severityScore
        /\ response.body.urgency = tresult.value.urgency
        /\ response.body.recommendedAction = tresult.value.recommendedAction

\* a quota failure of the AI call was answered 200 with the client's values
C22_Witness ==
    /\ tpc = "responded"
    /\ aiOutcome.kind = "error"
    /\ Signal("quota")
    /\ response.status = 200
    /\ response.body.severityScore = Num(5)
    /\ response.body.urgency = Str("Same Day")


\* ----------------------------------------------------------------- C21
\* both handlers have finished a request
BothDone == \A h \in HandlerIds : handlers[h].pc = "done"

\* C21 as stated: two operations on the same record take effect as if one
\* after the other: of two handlers that served different status requests on
\* the record while it was pending at most one succeeded, and the messages
\* of two accepted appends are both in the thread.
C21_AsStated ==
    BothDone =>
        LET a == handlers["first"]
            b == handlers["second"]
        IN  /\ ( /\ a.op \in DOMAIN StatusRequested
                 /\ b.op \in DOMAIN StatusRequested
                 /\ a.op # b.op
                 /\ a.loaded.status = "pending"
                 /\ b.loaded.status = "pending" )
               => ~(a.outcome = "ok" /\ b.outcome = "ok")
            /\ ( /\ a.op = "append" /\ b.op = "append"
                 /\ a.outcome = "ok" /\ b.outcome = "ok"
                 /\ a.input # b.input )
               => \A r \in {a, b} :
                     \E k \in 1..Len(request.messages) :
                        /\ request.messages[k].message = r.input
                        /\ request.messages[k].sender = r.actor


\* ----------------------------------------------------------------- C23
\* C23 as stated: the appointment has at most one feedback, and a feedback
\* exists only if the appointment was completed when it was submitted;
\* feedback for a pending, approved, rejected or cancelled appointment is
\* refused.
C23_AsStated ==
    /\ Len(feedbacks) <= 1
    /\ \A k \in 1..Len(feedbacks) : feedbacks[k].status = "completed"


Sent == {inFlight[i] : i \in 1..Len(inFlight)}

\* the page was reached from the symptom checker
FromSymptomChecker == ~Falsy(Optional(locationState, "fromSymptomChecker"))

\* C25: a request carries fromSymptomChecker = true exactly when the page was
\* reached from the symptom checker, then with the urgency and score of the
\* triage call; a booking not from the symptom checker carries Routine.
C25_AsStated ==
    \A r \in Sent :
        /\ (Carried(r.payload, "fromSymptomChecker") = Bool(TRUE)) <=> FromSymptomChecker
        /\ FromSymptomChecker =>
              /\ r.payload.urgencyLevel =
                     JSOr(Optional(locationState, "urgencyLevel"), Str("Routine"))
              /\ Optional(locationState, "severityScore") # Undefined =>
                     r.payload.urgencyScore = Optional(locationState, "severityScore")
        /\ ~FromSymptomChecker => r.payload.urgencyLevel = Str("Routine")

\* C27: whenever the form shows the fixed Routine selector, the request sent
\* has urgencyLevel 'Routine' and urgencyScore 0.
C27_AsStated ==
    \A r \in Sent :
        ShowsRoutineSelector =>
            /\ r.payload.urgencyLevel = Str("Routine")
            /\ r.payload.urgencyScore = Num(0)

\* C28: at most one createAppointmentRequest call is in flight: loading is
\* true while the doctor fetch is pending and while a request is in flight,
\* and the form is not rendered while loading; a request that settles sets
\* loading to false and shows the success or the error snackbar, and every
\* request sent is eventually followed by that.
C28_SingleFlight ==
    /\ [](/\ Len(inFlight) <= 1
          /\ (inFlight # <<>> \/ doctorsFetch = "pending") => loading
          /\ loading => ~FormRendered)
    /\ [][Len(inFlight') < Len(inFlight) =>
             /\ loading' = FALSE
             /\ snackbar' \in {SuccessSnackbar, ErrorSnackbar}]_vars
    /\ (inFlight # <<>>) ~> (inFlight = <<>> /\ ~loading /\ snackbar.open)

C28_Witness ==
    /\ Len(inFlight) = 1
    /\ loading
    /\ doctorsFetch = "settled"
    /\ lastSubmit.sent = "request"

\* C29: a request that succeeds clears exactly doctorMedicalId, preferredDate,
\* preferredTime, symptoms and contactInfo and leaves every other field of
\* formData as it was, urgencyLevel and urgencyScore included, so the next
\* booking carries them; a request that fails leaves every field unchanged.
C29_ResetOnSuccess ==
    /\ [][Len(inFlight') < Len(inFlight) =>
             IF snackbar'.severity = "success"
             THEN \A name \in DOMAIN formData :
                      formData'[name] =
                          IF name \in {"doctorMedicalId", "preferredDate",
                                       "preferredTime", "symptoms", "contactInfo"}
                          THEN "" ELSE formData[name]
             ELSE formData' = formData]_vars
    /\ [](\A r \in Sent : /\ r.payload.urgencyLevel = formData.urgencyLevel
                          /\ r.payload.urgencyScore = formData.urgencyScore
                          /\ formData.urgencyLevel =
                                 InitialFormData(locationState, Null).urgencyLevel
                          /\ formData.urgencyScore =
                                 InitialFormData(locationState, Null).urgencyScore)

\* after a success the form is empty again, keeps the triage urgency and the
\* chosen meeting type, and a second request with that urgency is in flight
C29_Witness ==
    /\ snackbar = SuccessSnackbar
    /\ lastSubmit.sent = "request"
    /\ Len(inFlight) = 1
    /\ inFlight[1].payload.urgencyLevel = Str("Urgent")
    /\ inFlight[1].payload.urgencyScore = Num(7)
    /\ inFlight[1].payload.meetingType = "online"
    /\ inFlight[1].payload.contactInfo = ""

\* C30: every request sent carries as patientMedicalId the medicalId of the
\* user authenticated when it was submitted, whatever formData holds; with no
\* authenticated user a submit sends no request and shows the error snackbar.
C30_PatientIsUser ==
    /\ [](\A r \in Sent : /\ r.userData # Null
                          /\ r.payload.patientMedicalId = r.userData.medicalId)
    /\ [][userData = Null => Len(inFlight') <= Len(inFlight)]_vars
    /\ [][lastSubmit' # lastSubmit /\ lastSubmit'.sent = "nothing" =>
             /\ userData = Null
             /\ snackbar' = ErrorSnackbar
             /\ inFlight' = inFlight]_vars
    /\ [](lastSubmit.sent = "nothing" =>
             /\ inFlight = <<>>
             /\ ~loading
             /\ snackbar.severity = "error"
             /\ snackbar.message = ErrorSnackbar.message)

\* a request of a user who logged in after the form was initialised
C30_Witness ==
    \E r \in Sent :
        /\ r.formData.patientMedicalId = ""
        /\ r.payload.patientMedicalId = "PAT001"

====
